---- MODULE Spec2Model ----
(***************************************************************************)
(* A model of Happy-Places.py: the HappyPlaces class over its SQLite       *)
(* store.  The state is the content of the four tables plus the response   *)
(* of the last call.  Every public method is one action; the SQL           *)
(* statements are operators over a database value, so that a method's      *)
(* transaction ("with self._connect() as conn") is: run the statements on  *)
(* a working copy, commit it when none raised, keep the old content when   *)
(* one did.                                                                *)
(*                                                                         *)
(* ret is the last call as its caller sees it: the method, the arguments   *)
(* the claims speak of, and the outcome (a status for a write, the value   *)
(* for a query).                                                           *)
(*                                                                         *)
(* Conventions.  A nullable value (SQL NULL, Python None, an absent dict   *)
(* key) is the empty tuple <<>>, a present value v is <<v>>.  Timestamps   *)
(* are TEXT compared as strings; the model uses small integers that stand  *)
(* for the strings in their lexicographic order.  Dates are day numbers.   *)
(* REAL columns hold whole numbers in the model.                           *)
(***************************************************************************)
EXTENDS Integers, Sequences, FiniteSets, TLC

VARIABLES items, placements, co_presence, zones, ret

vars == <<items, placements, co_presence, zones, ret>>

(***************************************************************************)
(* Nullable values                                                         *)
(***************************************************************************)
NULL == <<>>

Some(v) == <<v>>

\* Python's "x or d" for an optional number: None and 0 are both falsy.
OrZero(x) == IF x = NULL \/ x = Some(0) THEN 0 ELSE x[1]

Max(a, b) == IF a >= b THEN a ELSE b

Min(a, b) == IF a <= b THEN a ELSE b

(***************************************************************************)
(* Schema                                                                  *)
(***************************************************************************)
Categories == {"good_stuff", "refillable", "disposable"}

DistributionTypes == {"stack", "spread", "lose", "discard", "placed"}

\* A column without the CHECK.
CategoryUnchecked(category) == TRUE

\* CHECK(category IN (...)) on a TEXT value.

CheckCategory(category) == category \in Categories

\* CHECK(distribution_type IN (...)) on a TEXT value.
CheckDistributionType(distribution_type) == distribution_type \in DistributionTypes

\* metadata: "metadata or {}" then json.dumps.  A dict is a set of
\* <<key, value>> pairs; the JSON text is tagged so that it is not the dict.
MetadataOrEmpty(metadata) == IF metadata = NULL \/ metadata = Some({}) THEN {} ELSE metadata[1]

JsonDumps(d) == <<"json", d>>

JsonLoads(s) == s[2]

\* The content of the store as one value.
DB == [items |-> items, placements |-> placements,
       co_presence |-> co_presence, zones |-> zones]

\* conn.commit(): the working copy becomes the store.
Commit(db) ==
    /\ items' = db.items
    /\ placements' = db.placements
    /\ co_presence' = db.co_presence
    /\ zones' = db.zones

\* An exception leaves the "with" block: the connection rolls back.
Rollback == UNCHANGED <<items, placements, co_presence, zones>>

Init ==
    /\ items = {}
    /\ placements = <<>>
    /\ co_presence = <<>>
    /\ zones = {}
    /\ ret = [op |-> "init"]

(***************************************************************************)
(* Input domains                                                           *)
(***************************************************************************)
MaxPlacements == 2

ItemIds == {"a", "x"}

ZoneNames == {"z1", "z2"}

Timestamps == {1, 2}

Labels == {"L1", "L2"}

(***************************************************************************)
(* Ledger writer: the SQL statements                                       *)
(***************************************************************************)
Rows(table) == {table[i] : i \in 1..Len(table)}

\* SELECT ... FROM items WHERE item_id = ?
ItemRows(db, item_id) == {i \in db.items : i.item_id = item_id}

\* A statement's outcome: the working copy after it, or a raised error.
Done(db) == [ok |-> TRUE, db |-> db]

Raised(db) == [ok |-> FALSE, db |-> db]

\* INSERT OR IGNORE: a row of that identity already stored is kept.
InsertOrIgnoreItem(db, row) ==
    IF ~CheckCategory(row.category) THEN Raised(db)
    ELSE IF \E r \in db.items : r.item_id = row.item_id THEN Done(db)
    ELSE Done([db EXCEPT !.items = @ \cup {row}])

\* INSERT OR REPLACE INTO items: a CHECK failure aborts the statement; a
\* PRIMARY KEY conflict deletes the stored row before the insert.
InsertOrReplaceItem(db, row) ==
    IF ~CheckCategory(row.category) THEN Raised(db)
    ELSE Done([db EXCEPT !.items =
                  {r \in @ : r.item_id # row.item_id} \cup {row}])

\* A table of current locations: the row replaces the item's earlier rows.
InsertPlacementAsLocation(db, item_id, zone, distribution_type, routine, motive, timestamp, metadata) ==
    IF ~CheckDistributionType(distribution_type) THEN Raised(db)
    ELSE Done([db EXCEPT !.placements = Append(SelectSeq(@, LAMBDA p : p.item_id # item_id),
                  [placement_id |-> Len(@) + 1, item_id |-> item_id, zone |-> zone,
                   distribution_type |-> distribution_type, routine |-> routine,
                   motive |-> motive, timestamp |-> timestamp, metadata |-> metadata])])

\* INSERT INTO placements: placement_id is AUTOINCREMENT, rows are never
\* deleted, so the next id is the row count plus one.
InsertPlacement(db, item_id, zone, distribution_type, routine, motive, timestamp, metadata) ==
    IF ~CheckDistributionType(distribution_type) THEN Raised(db)
    ELSE Done([db EXCEPT !.placements = Append(@,
                  [placement_id |-> Len(@) + 1, item_id |-> item_id, zone |-> zone,
                   distribution_type |-> distribution_type, routine |-> routine,
                   motive |-> motive, timestamp |-> timestamp, metadata |-> metadata])])

\* INSERT INTO co_presence (item_a, item_b, zone, timestamp); the declared
\* foreign keys are not enforced (no PRAGMA foreign_keys).
InsertCoPresence(db, item_a, item_b, zone, timestamp) ==
    [db EXCEPT !.co_presence = Append(@,
        [id |-> Len(@) + 1, item_a |-> item_a, item_b |-> item_b,
         zone |-> zone, timestamp |-> timestamp])]

\* The loop body without the reverse insert.
CoPresencePairOneWay(db, item_id, other_id, zone, timestamp) ==
    InsertCoPresence(db, item_id, other_id, zone, timestamp)

\* The loop body: the edge and its reverse.
CoPresencePair(db, item_id, other_id, zone, timestamp) ==
    InsertCoPresence(InsertCoPresence(db, item_id, other_id, zone, timestamp),
                     other_id, item_id, zone, timestamp)

\* for other_id in seen_with: ...
RECURSIVE RecordCoPresence(_, _, _, _, _)
RecordCoPresence(db, item_id, seen_with, zone, timestamp) ==
    IF seen_with = <<>> THEN db
    ELSE RecordCoPresence(CoPresencePair(db, item_id, Head(seen_with), zone, timestamp),
                          item_id, Tail(seen_with), zone, timestamp)

\* INSERT OR REPLACE INTO zones
InsertOrReplaceZone(db, row) ==
    [db EXCEPT !.zones = {r \in @ : r.zone_id # row.zone_id} \cup {row}]

(***************************************************************************)
(* Ledger writer: the methods                                              *)
(***************************************************************************)
\* ret.args are the arguments as passed; ret.replaced tells whether a row of
\* that identity was stored when the call was made.
register_item(item_id, label, category, purchase_date, expected_lifespan_years, current_quantity, refill_threshold, usage_rate_per_day, metadata) ==
    LET args == [item_id |-> item_id, label |-> label, category |-> category,
                 purchase_date |-> purchase_date,
                 expected_lifespan_years |-> expected_lifespan_years,
                 current_quantity |-> current_quantity,
                 refill_threshold |-> refill_threshold,
                 usage_rate_per_day |-> usage_rate_per_day,
                 metadata |-> metadata]
        row == [args EXCEPT !.metadata = JsonDumps(MetadataOrEmpty(metadata))]
        r == InsertOrReplaceItem(DB, row)
    IN  IF r.ok
        THEN /\ Commit(r.db)
             /\ ret' = [op |-> "register_item", args |-> args,
                        replaced |-> (ItemRows(DB, item_id) # {}), status |-> "ok"]
        ELSE /\ Rollback
             /\ ret' = [op |-> "register_item", args |-> args,
                        replaced |-> FALSE, status |-> "IntegrityError"]

\* utcnow is the clock reading taken when no timestamp is passed.
record_placement(item_id, zone, distribution_type, routine, motive, seen_with, timestamp, metadata, utcnow) ==
    LET ts == IF timestamp = NULL THEN utcnow ELSE timestamp[1]
        r  == InsertPlacement(DB, item_id, zone, distribution_type, routine, motive,
                              ts, JsonDumps(MetadataOrEmpty(metadata)))
    IN  /\ r.ok => Len(placements) < MaxPlacements
        /\ IF r.ok
           THEN /\ Commit(IF seen_with = NULL \/ seen_with = Some(<<>>) THEN r.db
                          ELSE RecordCoPresence(r.db, item_id, seen_with[1], zone, ts))
                /\ ret' = [op |-> "record_placement",
                           distribution_type |-> distribution_type, status |-> "ok"]
           ELSE /\ Rollback
                /\ ret' = [op |-> "record_placement",
                           distribution_type |-> distribution_type,
                           status |-> "IntegrityError"]

register_zone(zone_id, zone_name, description) ==
    /\ Commit(InsertOrReplaceZone(DB, [zone_id |-> zone_id, zone_name |-> zone_name,
                                       description |-> description]))
    /\ ret' = [op |-> "register_zone", zone_id |-> zone_id, status |-> "ok"]

(***************************************************************************)
(* Projection engine: the SQL queries                                      *)
(***************************************************************************)
\* SELECT ... FROM placements WHERE item_id = ?
PlacementsOf(db, item_id) == {p \in Rows(db.placements) : p.item_id = item_id}

\* ORDER BY timestamp DESC: every order of the rows with non-increasing
\* timestamps; SQL leaves the order of rows with equal keys open.
RECURSIVE OrderByTimestampDesc(_)
OrderByTimestampDesc(S) ==
    IF S = {} THEN {<<>>}
    ELSE UNION {{<<m>> \o t : t \in OrderByTimestampDesc(S \ {m})} :
                m \in {r \in S : \A q \in S : r.timestamp >= q.timestamp}}

\* A LIMIT that keeps every row.
LimitIgnored(s, n) == s

\* LIMIT n: a negative n is no limit in SQLite.
Limit(s, n) == IF n < 0 THEN s ELSE SubSeq(s, 1, Min(n, Len(s)))

\* round(n/d, 1) for d > 0, in tenths: the nearest tenth, an exact tie to the
\* even one.
Round1(n, d) ==
    LET q == (10 * n) \div d
        r == (10 * n) % d
    IN  IF 2 * r < d THEN q
        ELSE IF 2 * r > d THEN q + 1
        ELSE IF q % 2 = 0 THEN q ELSE q + 1

\* Truthiness of an optional number ("x and ...", "if x"): None and 0 are falsy.
Truthy(x) == x # NULL /\ x # Some(0)

\* age_years = (now - purchase).days / 365.25, in units of 1/1461 year.
AgeQ(purchase_date, now) == 4 * (now - purchase_date)

\* lifespan_years - age_years in units of 1/1461 year.
RemainingQ(purchase_date, lifespan_years, now) ==
    1461 * lifespan_years - AgeQ(purchase_date, now)

\* The "lifecycle" entry of item_status.
Lifecycle(item, now) ==
    LET lifespan_years == item.expected_lifespan_years[1]
        remaining == Max(0, RemainingQ(item.purchase_date[1], lifespan_years, now))
    IN  [purchase_date |-> item.purchase_date[1],
         age_years |-> Round1(AgeQ(item.purchase_date[1], now), 1461),
         expected_lifespan_years |-> lifespan_years,
         remaining_years |-> Round1(remaining, 1461),
         health_percent |-> Round1(100 * remaining, 1461 * lifespan_years)]

\* days_remaining = (quantity / usage_rate) if usage_rate > 0 else None, then
\* "round(days_remaining, 1) if days_remaining else None": a quotient of 0 is
\* falsy.  The value is in tenths of a day.
DaysRemaining(quantity, usage_rate) ==
    LET days_remaining == IF usage_rate > 0 THEN Some(<<quantity, usage_rate>>) ELSE NULL
    IN  IF days_remaining # NULL /\ days_remaining[1][1] # 0
        THEN Some(Round1(days_remaining[1][1], days_remaining[1][2]))
        ELSE NULL

\* The "refill_status" entry of item_status.
RefillStatus(item) ==
    LET quantity == OrZero(item.current_quantity)
        threshold == OrZero(item.refill_threshold)
        usage_rate == OrZero(item.usage_rate_per_day)
    IN  [current_quantity |-> quantity,
         refill_threshold |-> threshold,
         needs_refill |-> (quantity <= threshold),
         days_remaining |-> DaysRemaining(quantity, usage_rate)]

\* The "current_placement" entry of item_status.
CurrentPlacement(p) ==
    [zone |-> p.zone, distribution_type |-> p.distribution_type,
     routine |-> p.routine, motive |-> p.motive, timestamp |-> p.timestamp]

\* SELECT ... FROM placements WHERE item_id = ? ORDER BY timestamp DESC
\* LIMIT 1: NULL when there is no row, else a first row of an allowed order.
LatestPlacement(db, item_id) ==
    {IF s = <<>> THEN NULL ELSE Some(s[1]) :
        s \in {Limit(o, 1) : o \in OrderByTimestampDesc(PlacementsOf(db, item_id))}}

\* The dict item_status builds from the item row and the latest placement;
\* an absent key is NULL.
StatusOf(item, placement, now) ==
    [item_id |-> item.item_id,
     label |-> item.label,
     category |-> item.category,
     metadata |-> JsonLoads(item.metadata),
     lifecycle |->
        IF item.category = "good_stuff" /\ item.purchase_date # NULL
           /\ Truthy(item.expected_lifespan_years)
        THEN Some(Lifecycle(item, now)) ELSE NULL,
     refill_status |->
        IF ~(item.category = "good_stuff" /\ item.purchase_date # NULL
             /\ Truthy(item.expected_lifespan_years))
           /\ item.category = "refillable"
        THEN Some(RefillStatus(item)) ELSE NULL,
     current_placement |->
        IF placement # NULL THEN Some(CurrentPlacement(placement[1])) ELSE NULL]

\* item_status without the "if not item: return None".
ItemStatusNoLookup(db, item_id, now) ==
    {Some(StatusOf(i, p, now)) :
        i \in IF ItemRows(db, item_id) = {}
              THEN {[item_id |-> item_id, label |-> NULL, category |-> NULL,
                     purchase_date |-> NULL, expected_lifespan_years |-> NULL,
                     current_quantity |-> NULL, refill_threshold |-> NULL,
                     usage_rate_per_day |-> NULL, metadata |-> JsonDumps({})]}
              ELSE ItemRows(db, item_id),
        p \in LatestPlacement(db, item_id)}

\* The values item_status can return: None when there is no item row.
ItemStatus(db, item_id, now) ==
    IF ItemRows(db, item_id) = {} THEN {NULL}
    ELSE {Some(StatusOf(i, p, now)) :
            i \in ItemRows(db, item_id), p \in LatestPlacement(db, item_id)}

\* One entry of placement_history.
HistoryEntry(p) ==
    [zone |-> p.zone, distribution_type |-> p.distribution_type,
     routine |-> p.routine, motive |-> p.motive, timestamp |-> p.timestamp,
     metadata |-> JsonLoads(p.metadata)]

\* The lists placement_history can return.
PlacementHistory(db, item_id, limit) ==
    {[k \in 1..Len(l) |-> HistoryEntry(l[k])] :
        l \in {Limit(o, limit) : o \in OrderByTimestampDesc(PlacementsOf(db, item_id))}}

\* SELECT DISTINCT c.item_b, i.label, c.zone, c.timestamp FROM co_presence c
\* JOIN items i ON c.item_b = i.item_id WHERE c.item_a = ?
NeighborRows(db, item_id) ==
    {[item_id |-> j[1].item_b, label |-> j[2].label,
      zone |-> j[1].zone, timestamp |-> j[1].timestamp] :
        j \in {j \in Rows(db.co_presence) \X db.items :
                  j[1].item_b = j[2].item_id /\ j[1].item_a = item_id}}

\* def recent_neighbors(self, item_id, limit: int = 10)
NeighborLimitDefault == 10

\* The lists recent_neighbors can return.
RecentNeighbors(db, item_id, limit) ==
    {Limit(o, limit) : o \in OrderByTimestampDesc(NeighborRows(db, item_id))}

\* SELECT MAX(timestamp) FROM placements WHERE item_id = ?
MaxTimestamp(db, item_id) ==
    CHOOSE t \in {p.timestamp : p \in PlacementsOf(db, item_id)} :
        \A p \in PlacementsOf(db, item_id) : p.timestamp <= t

\* The rows of items_in_zone (SELECT DISTINCT, no ORDER BY).
ItemsInZone(db, zone) ==
    {[item_id |-> j[1].item_id, label |-> j[1].label, category |-> j[1].category,
      distribution_type |-> j[2].distribution_type, last_updated |-> j[2].timestamp] :
        j \in {j \in db.items \X Rows(db.placements) :
                  /\ j[1].item_id = j[2].item_id
                  /\ j[2].zone = zone
                  /\ j[2].timestamp = MaxTimestamp(db, j[1].item_id)}}

(***************************************************************************)
(* Pattern analyzer                                                        *)
(***************************************************************************)
\* SELECT ... FROM items WHERE category = 'refillable' AND current_quantity
\* <= refill_threshold: a comparison with NULL is not true.
RefillNeeded(db) ==
    {[item_id |-> i.item_id, label |-> i.label,
      current_quantity |-> i.current_quantity, threshold |-> i.refill_threshold] :
        i \in {i \in db.items :
                  /\ i.category = "refillable"
                  /\ i.current_quantity # NULL /\ i.refill_threshold # NULL
                  /\ i.current_quantity[1] <= i.refill_threshold[1]}}

\* The aging rows kept up to and including 20% of the lifespan.
ReplacementSoonInclusive(db, now) ==
    {[item_id |-> i.item_id, label |-> i.label,
      remaining_years |->
          Round1(RemainingQ(i.purchase_date[1], i.expected_lifespan_years[1], now), 1461),
      health_percent |->
          Round1(100 * RemainingQ(i.purchase_date[1], i.expected_lifespan_years[1], now),
                 1461 * i.expected_lifespan_years[1])] :
        i \in {i \in db.items :
                  /\ i.category = "good_stuff"
                  /\ i.purchase_date # NULL /\ i.expected_lifespan_years # NULL
                  /\ 5 * RemainingQ(i.purchase_date[1], i.expected_lifespan_years[1], now)
                        <= 1461 * i.expected_lifespan_years[1]
                  /\ RemainingQ(i.purchase_date[1], i.expected_lifespan_years[1], now) > 0}}

\* The good_stuff rows with both dates set, kept when
\* 0 < remaining_years < lifespan_years * 0.2.
ReplacementSoon(db, now) ==
    {[item_id |-> i.item_id, label |-> i.label,
      remaining_years |->
          Round1(RemainingQ(i.purchase_date[1], i.expected_lifespan_years[1], now), 1461),
      health_percent |->
          Round1(100 * RemainingQ(i.purchase_date[1], i.expected_lifespan_years[1], now),
                 1461 * i.expected_lifespan_years[1])] :
        i \in {i \in db.items :
                  /\ i.category = "good_stuff"
                  /\ i.purchase_date # NULL /\ i.expected_lifespan_years # NULL
                  /\ 5 * RemainingQ(i.purchase_date[1], i.expected_lifespan_years[1], now)
                        < 1461 * i.expected_lifespan_years[1]
                  /\ RemainingQ(i.purchase_date[1], i.expected_lifespan_years[1], now) > 0}}

ItemsNeedingAttention(db, now) ==
    [refill_needed |-> RefillNeeded(db), replacement_soon |-> ReplacementSoon(db, now)]

(***************************************************************************)
(* Pattern analyzer: the group counts                                      *)
(***************************************************************************)
\* A count of the distinct zones of each distribution type.
OverallCountsOfZones(db) ==
    [t \in {p.distribution_type : p \in Rows(db.placements)} |->
        Cardinality({p.zone : p \in {q \in Rows(db.placements) : q.distribution_type = t}})]

\* SELECT distribution_type, COUNT(*) FROM placements GROUP BY
\* distribution_type, as the dict {distribution_type: count}.
OverallCounts(db) ==
    [t \in {p.distribution_type : p \in Rows(db.placements)} |->
        Cardinality({p \in Rows(db.placements) : p.distribution_type = t})]

\* SELECT zone, distribution_type, COUNT(*) FROM placements GROUP BY zone,
\* distribution_type: one record per group, so the list is given as a set.
ByZone(db) ==
    {[zone |-> k[1], distribution_type |-> k[2],
      count |-> Cardinality({p \in Rows(db.placements) :
                                p.zone = k[1] /\ p.distribution_type = k[2]})] :
        k \in {<<p.zone, p.distribution_type>> : p \in Rows(db.placements)}}

DistributionPatterns(db) ==
    [overall_counts |-> OverallCounts(db), by_zone |-> ByZone(db)]

(***************************************************************************)
(* The queries as calls: the store is read, the response is recorded       *)
(***************************************************************************)
item_status(item_id, now) ==
    /\ \E v \in ItemStatus(DB, item_id, now) :
          ret' = [op |-> "item_status", item_id |-> item_id, now |-> now, value |-> v]
    /\ UNCHANGED <<items, placements, co_presence, zones>>

placement_history(item_id, limit) ==
    /\ \E v \in PlacementHistory(DB, item_id, limit) :
          ret' = [op |-> "placement_history", item_id |-> item_id,
                  limit |-> limit, value |-> v]
    /\ UNCHANGED <<items, placements, co_presence, zones>>

recent_neighbors(item_id, limit) ==
    /\ \E v \in RecentNeighbors(DB, item_id, limit) :
          ret' = [op |-> "recent_neighbors", item_id |-> item_id,
                  limit |-> limit, value |-> v]
    /\ UNCHANGED <<items, placements, co_presence, zones>>

items_in_zone(zone) ==
    /\ ret' = [op |-> "items_in_zone", zone |-> zone, value |-> ItemsInZone(DB, zone)]
    /\ UNCHANGED <<items, placements, co_presence, zones>>

items_needing_attention(now) ==
    /\ ret' = [op |-> "items_needing_attention", now |-> now,
               value |-> ItemsNeedingAttention(DB, now)]
    /\ UNCHANGED <<items, placements, co_presence, zones>>

distribution_patterns ==
    /\ ret' = [op |-> "distribution_patterns", value |-> DistributionPatterns(DB)]
    /\ UNCHANGED <<items, placements, co_presence, zones>>

(***************************************************************************)
(* The ledger: every operation, items registered by label and category     *)
(***************************************************************************)
CategoryInputs == {"disposable", "bogus"}

DistributionInputs == {"placed", "bogus"}

SeenWithInputs == {NULL, Some(<<>>), Some(<<"x">>)}

TimestampInputs == {NULL, Some(1)}

\* The clock is read only when no timestamp is passed.
ClockReadings(timestamp) == IF timestamp = NULL THEN Timestamps ELSE {1}

LimitInputs == {-1, 0, 1, 2}

\* datetime.now() as a day number: 1644 days after day 0 is 4.5 years.
NowInputs == {1644}

RegisterItem ==
    \E item_id \in ItemIds, label \in {"L1"}, category \in CategoryInputs :
        register_item(item_id, label, category, NULL, NULL, NULL, NULL, NULL, NULL)

RecordPlacement ==
    \E item_id \in ItemIds, zone \in ZoneNames, distribution_type \in DistributionInputs,
       seen_with \in SeenWithInputs, timestamp \in TimestampInputs :
      \E utcnow \in ClockReadings(timestamp) :
        record_placement(item_id, zone, distribution_type, NULL, NULL, seen_with,
                         timestamp, NULL, utcnow)

RegisterZone ==
    \E zone_id \in {"z1"} : register_zone(zone_id, "Z", "")

QueryItemStatus == \E item_id \in ItemIds, now \in NowInputs : item_status(item_id, now)

QueryPlacementHistory ==
    \E item_id \in ItemIds, limit \in LimitInputs : placement_history(item_id, limit)

QueryRecentNeighbors ==
    \E item_id \in ItemIds, limit \in LimitInputs : recent_neighbors(item_id, limit)

QueryItemsInZone == \E zone \in ZoneNames : items_in_zone(zone)

QueryAttention == \E now \in NowInputs : items_needing_attention(now)

Next ==
    \/ RegisterItem
    \/ RecordPlacement
    \/ RegisterZone
    \/ QueryItemStatus
    \/ QueryPlacementHistory
    \/ QueryRecentNeighbors
    \/ QueryItemsInZone
    \/ QueryAttention

Spec == Init /\ [][Next]_vars

(***************************************************************************)
(* The ledger writer alone                                                 *)
(***************************************************************************)
NextWrites ==
    \/ RegisterItem
    \/ RecordPlacement
    \/ RegisterZone

SpecWrites == Init /\ [][NextWrites]_vars

C2_CoPresenceSymmetric ==
    \A c \in Rows(co_presence) :
        /\ \E m \in Rows(co_presence) :
              /\ m.item_a = c.item_b /\ m.item_b = c.item_a
              /\ m.zone = c.zone /\ m.timestamp = c.timestamp
        /\ \E p \in Rows(placements) :
              /\ p.zone = c.zone /\ p.timestamp = c.timestamp
              /\ p.item_id \in {c.item_a, c.item_b}

\* Co-presence rows between two different items are stored and a later
\* record_placement call has failed.
C2_Witness ==
    /\ \E c \in Rows(co_presence) : c.item_a # c.item_b
    /\ ret.op = "record_placement"
    /\ ret.status = "IntegrityError"

(***************************************************************************)
(* Claims about the queries, under the whole system (Spec)                 *)
(***************************************************************************)
\* The store after the step.
DBNext == [items |-> items', placements |-> placements',
           co_presence |-> co_presence', zones |-> zones']

\* C3 (as claimed): a successful record_placement for item A with
\* seen_with = [X] adds exactly one placement row and exactly the two
\* co-presence rows (A, X) and (X, A) with the placement's zone and
\* timestamp, and afterwards recent_neighbors(A) lists X and
\* recent_neighbors(X) lists A, whether or not A and X are registered.
\* Stated for two different identities.
C3_Original ==
    [][\A item_id \in ItemIds, zone \in ZoneNames,
          distribution_type \in DistributionInputs, timestamp \in TimestampInputs :
        \A other_id \in ItemIds \ {item_id}, utcnow \in ClockReadings(timestamp) :
          /\ record_placement(item_id, zone, distribution_type, NULL, NULL,
                              Some(<<other_id>>), timestamp, NULL, utcnow)
          /\ ret'.status = "ok"
          => LET ts == IF timestamp = NULL THEN utcnow ELSE timestamp[1]
                 n == Len(co_presence)
             IN  /\ Len(placements') = Len(placements) + 1
                 /\ SubSeq(placements', 1, Len(placements)) = placements
                 /\ Len(co_presence') = n + 2
                 /\ SubSeq(co_presence', 1, n) = co_presence
                 /\ co_presence'[n + 1] = [id |-> n + 1, item_a |-> item_id,
                        item_b |-> other_id, zone |-> zone, timestamp |-> ts]
                 /\ co_presence'[n + 2] = [id |-> n + 2, item_a |-> other_id,
                        item_b |-> item_id, zone |-> zone, timestamp |-> ts]
                 /\ \A v \in RecentNeighbors(DBNext, item_id, NeighborLimitDefault) :
                        \E k \in DOMAIN v : v[k].item_id = other_id
                 /\ \A v \in RecentNeighbors(DBNext, other_id, NeighborLimitDefault) :
                        \E k \in DOMAIN v : v[k].item_id = item_id]_vars

\* C4 (as claimed): items_in_zone(Z) lists exactly the registered items for
\* which item_status reports a current_placement in Z, and an item listed in
\* Z is listed in no other zone.
C4_Original ==
    ret.op = "items_in_zone" =>
        /\ \A i \in items :
              \A now \in NowInputs : \A v \in ItemStatus(DB, i.item_id, now) :
                  (\E r \in ret.value : r.item_id = i.item_id)
                  <=> /\ v[1].current_placement # NULL
                      /\ v[1].current_placement[1].zone = ret.zone
        /\ \A r \in ret.value : \E i \in items : i.item_id = r.item_id
        /\ \A z \in ZoneNames \ {ret.zone} :
              \A r \in ret.value, q \in ItemsInZone(DB, z) : r.item_id # q.item_id

\* C6 (as claimed): recent_neighbors lists every neighbor identity at most
\* once, with the zone and timestamp of its most recent sighting, newest
\* first.  Stated for a limit that is a count.
C6_Original ==
    ret.op = "recent_neighbors" /\ ret.limit >= 0 =>
        /\ \A j, k \in DOMAIN ret.value :
              j # k => ret.value[j].item_id # ret.value[k].item_id
        /\ \A k \in DOMAIN ret.value :
              \A c \in Rows(co_presence) :
                  c.item_a = ret.item_id /\ c.item_b = ret.value[k].item_id
                  => c.timestamp <= ret.value[k].timestamp
        /\ \A j, k \in DOMAIN ret.value :
              j < k => ret.value[j].timestamp >= ret.value[k].timestamp

(***************************************************************************)
(* placement_history over a ledger of two items                            *)
(***************************************************************************)
HistoryRecord ==
    \E item_id \in ItemIds, zone \in ZoneNames, distribution_type \in {"placed", "stack"},
       timestamp \in Timestamps :
        record_placement(item_id, zone, distribution_type, NULL, NULL, NULL,
                         Some(timestamp), NULL, 1)

NextHistory ==
    \/ HistoryRecord
    \/ QueryPlacementHistory

SpecHistory == Init /\ [][NextHistory]_vars

\* The entries v are the Len(v) most recent placements among the rows P, in
\* an order with non-increasing timestamps: each entry is its own row of P
\* and no row left out is newer than an entry.
MostRecentOf(v, P) ==
    /\ \E f \in [DOMAIN v -> P] :
          /\ \A j, k \in DOMAIN v : j # k => f[j] # f[k]
          /\ \A k \in DOMAIN v : HistoryEntry(f[k]) = v[k]
          /\ \A p \in P \ {f[k] : k \in DOMAIN v} :
                \A k \in DOMAIN v : p.timestamp <= v[k].timestamp
    /\ \A j, k \in DOMAIN v : j < k => v[j].timestamp >= v[k].timestamp

\* C5 (as claimed): for any limit N, placement_history(id, N) has at most N
\* entries, all of them placements of that item, newest first, and they are
\* the N most recent ones.
C5_Original ==
    ret.op = "placement_history" =>
        /\ Len(ret.value) <= ret.limit
        /\ Len(ret.value) = Min(ret.limit, Cardinality(PlacementsOf(DB, ret.item_id)))
        /\ MostRecentOf(ret.value, PlacementsOf(DB, ret.item_id))

\* C5 (amended): the same for any limit N >= 0.
C5_HistoryBounded ==
    ret.op = "placement_history" /\ ret.limit >= 0 =>
        /\ Len(ret.value) <= ret.limit
        /\ Len(ret.value) = Min(ret.limit, Cardinality(PlacementsOf(DB, ret.item_id)))
        /\ MostRecentOf(ret.value, PlacementsOf(DB, ret.item_id))

\* The limit cuts the history: the item has more placements than the limit
\* and they were not recorded in time order, so the entry kept is the newest
\* by timestamp and not the row written last.
C5_Witness ==
    /\ ret.op = "placement_history"
    /\ ret.limit = 1
    /\ Len(ret.value) = 1
    /\ Cardinality(PlacementsOf(DB, ret.item_id)) > 1
    /\ placements[1].item_id = ret.item_id
    /\ placements[1].timestamp > placements[2].timestamp
    /\ ret.value[1].timestamp = placements[1].timestamp

(***************************************************************************)
(* item_status over registered and unregistered identities                 *)
(***************************************************************************)
MetadataInputs == {NULL, Some({<<"k", "v">>})}

StatusRegister ==
    \E item_id \in ItemIds, label \in Labels, category \in {"disposable", "good_stuff"},
       metadata \in MetadataInputs :
        register_item(item_id, label, category, NULL, NULL, NULL, NULL, NULL, metadata)

StatusRecord ==
    \E item_id \in ItemIds, timestamp \in Timestamps :
        record_placement(item_id, "z1", "placed", NULL, NULL, NULL,
                         Some(timestamp), NULL, 1)

NextStatus ==
    \/ StatusRegister
    \/ StatusRecord
    \/ QueryItemStatus

SpecStatus == Init /\ [][NextStatus]_vars

\* C8: item_status returns None for an identity with no item record, whatever
\* placements are recorded under it; for a registered item it returns the
\* item's label, category and metadata, without a current_placement when the
\* item has no placement and with one when it has.
C8_StatusOutcomes ==
    ret.op = "item_status" =>
        IF ItemRows(DB, ret.item_id) = {}
        THEN ret.value = NULL
        ELSE /\ ret.value # NULL
             /\ \A i \in ItemRows(DB, ret.item_id) :
                   /\ ret.value[1].label = i.label
                   /\ ret.value[1].category = i.category
                   /\ ret.value[1].metadata = JsonLoads(i.metadata)
             /\ ret.value[1].current_placement # NULL
                   <=> PlacementsOf(DB, ret.item_id) # {}

\* Not found although placements are recorded under the identity.
C8_Witness ==
    /\ ret.op = "item_status"
    /\ ret.value = NULL
    /\ PlacementsOf(DB, ret.item_id) # {}
    /\ items # {}

(***************************************************************************)
(* The item registry: one identity registered with every lifecycle field   *)
(* varied, next to a second identity registered as a bare refillable       *)
(***************************************************************************)
QuantityInputs == {NULL, Some(0), Some(1), Some(2)}

ThresholdInputs == {NULL, Some(0), Some(1)}

UsageRateInputs == {NULL, Some(-1), Some(0), Some(1), Some(3)}

RegisterDurable ==
    \E label \in Labels, category \in {"good_stuff", "disposable", "bogus"},
       purchase_date \in {NULL, Some(0)}, expected_lifespan_years \in {NULL, Some(5)},
       metadata \in MetadataInputs :
        register_item("a", label, category, purchase_date, expected_lifespan_years,
                      NULL, NULL, NULL, metadata)

RegisterRefillable ==
    \E label \in Labels, category \in {"refillable", "disposable"},
       current_quantity \in QuantityInputs, refill_threshold \in ThresholdInputs,
       usage_rate_per_day \in UsageRateInputs :
        register_item("a", label, category, NULL, NULL, current_quantity,
                      refill_threshold, usage_rate_per_day, NULL)

RegisterOther ==
    register_item("x", "L1", "refillable", NULL, NULL, NULL, NULL, NULL, NULL)

NextRegistry ==
    \/ RegisterDurable
    \/ RegisterRefillable
    \/ RegisterOther
    \/ QueryItemStatus
    \/ QueryAttention

SpecRegistry == Init /\ [][NextRegistry]_vars

\* C7: after a successful register_item for an identity that already has a
\* record, the items table holds exactly one row for that identity and each
\* of its fields is the value passed in this call (an omitted field is NULL,
\* an omitted metadata the empty object); the rows of other identities are
\* as before.
C7_ReplacedInFull ==
    [][/\ ret'.op = "register_item"
       /\ ret'.status = "ok"
       /\ ItemRows(DB, ret'.args.item_id) # {}
       => /\ ItemRows(DBNext, ret'.args.item_id) =
                {[ret'.args EXCEPT !.metadata = JsonDumps(MetadataOrEmpty(@))]}
          /\ \A other \in ItemIds \ {ret'.args.item_id} :
                ItemRows(DBNext, other) = ItemRows(DB, other)]_vars

\* An identity registered again with only a label and a category: the row
\* now stored has no lifecycle field, next to the other identity's row.
C7_Witness ==
    /\ ret.op = "register_item"
    /\ ret.status = "ok"
    /\ ret.replaced
    /\ ret.args.label = "L2"
    /\ ret.args.current_quantity = NULL
    /\ ret.args.purchase_date = NULL
    /\ ret.args.metadata = NULL
    /\ \E i \in items : i.item_id # ret.args.item_id

\* C9 (as claimed): a registered refillable item is in refill_needed exactly
\* when current_quantity <= refill_threshold with absent values taken as 0,
\* which is exactly when item_status reports needs_refill for it.
C9_Original ==
    ret.op = "items_needing_attention" =>
        \A i \in {i \in items : i.category = "refillable"} :
            LET listed == \E r \in ret.value.refill_needed : r.item_id = i.item_id
            IN  /\ listed <=> OrZero(i.current_quantity) <= OrZero(i.refill_threshold)
                /\ \A v \in ItemStatus(DB, i.item_id, ret.now) :
                      listed <=> v[1].refill_status[1].needs_refill

\* C10 (as claimed): for a refillable item, item_status reports
\* days_remaining = current_quantity / usage_rate_per_day (to the one decimal
\* it reports, 0 included) whenever the usage rate is greater than 0, and no
\* days_remaining only when the usage rate is absent or not greater than 0.
C10_Original ==
    ret.op = "item_status" /\ ret.value # NULL =>
        \A i \in {i \in ItemRows(DB, ret.item_id) : i.category = "refillable"} :
            LET days_remaining == ret.value[1].refill_status[1].days_remaining
                positive == i.usage_rate_per_day # NULL /\ i.usage_rate_per_day[1] > 0
            IN  /\ positive =>
                      days_remaining = Some(Round1(OrZero(i.current_quantity),
                                                   i.usage_rate_per_day[1]))
                /\ days_remaining = NULL => ~positive

(***************************************************************************)
(* The attention lists: two identities registered as aging or refillable   *)
(* items, read on days around 80% and 100% of the expected lifespan        *)
(***************************************************************************)
\* Purchase dates are day numbers (an ISO date string and its midnight).
PurchaseDateInputs == {NULL, Some(0)}

\* Lifespans in years; 0 is a lifespan that is set but falsy.
LifespanInputs == {NULL, Some(0), Some(4), Some(5)}

\* datetime.now() as a day number.  After 1461 days (4 years) a lifespan of
\* 4 is used up exactly and one of 5 has exactly 20% left; 1644 days are
\* 4.5 years; after 1827 days a lifespan of 5 is exceeded.
AttentionNowInputs == {1460, 1461, 1462, 1644, 1827}

RegisterAging ==
    \E item_id \in ItemIds, category \in {"good_stuff", "refillable"},
       purchase_date \in PurchaseDateInputs, expected_lifespan_years \in LifespanInputs,
       current_quantity \in {NULL, Some(1)} :
        register_item(item_id, "L1", category, purchase_date, expected_lifespan_years,
                      current_quantity, Some(1), NULL, NULL)

QueryAttentionOn == \E now \in AttentionNowInputs : items_needing_attention(now)

NextAttention ==
    \/ RegisterAging
    \/ QueryAttentionOn

SpecAttention == Init /\ [][NextAttention]_vars

\* C11: replacement_soon lists exactly the good_stuff items with both
\* purchase_date and expected_lifespan_years set whose remaining years
\* (lifespan minus whole days of age / 365.25) are greater than 0 and less
\* than 0.2 times the lifespan; an item with no remaining years is not
\* listed; no item is in both refill_needed and replacement_soon.  In whole
\* days d of age and a lifespan of L years, 0 < L - d/365.25 < 0.2 * L is
\* 4 * d < 1461 * L and 1461 * L < 5 * d.
C11_ReplacementSoonExact ==
    ret.op = "items_needing_attention" =>
        LET soon == {r.item_id : r \in ret.value.replacement_soon}
            refill == {r.item_id : r \in ret.value.refill_needed}
            days(i) == ret.now - i.purchase_date[1]
            dated == {i \in items : /\ i.category = "good_stuff"
                                    /\ i.purchase_date # NULL
                                    /\ i.expected_lifespan_years # NULL}
        IN  /\ soon = {i.item_id : i \in {i \in dated :
                          /\ 4 * days(i) < 1461 * i.expected_lifespan_years[1]
                          /\ 1461 * i.expected_lifespan_years[1] < 5 * days(i)}}
            /\ \A i \in dated :
                  4 * days(i) >= 1461 * i.expected_lifespan_years[1] => i.item_id \notin soon
            /\ soon \cap refill = {}

\* The attention lists read 4.5 years after the purchase of two good_stuff
\* items: the one expected to last 5 years is listed with 0.5 years and 10.0%
\* left, the one expected to last 4 years is past its lifespan and not listed.
C11_Witness ==
    /\ ret.op = "items_needing_attention"
    /\ ret.now = 1644
    /\ \E r \in ret.value.replacement_soon :
          r.remaining_years = 5 /\ r.health_percent = 100
    /\ \E i \in items : /\ i.category = "good_stuff"
                         /\ i.purchase_date = Some(0)
                         /\ i.expected_lifespan_years = Some(4)
                         /\ \A r \in ret.value.replacement_soon : r.item_id # i.item_id

(***************************************************************************)
(* The pattern analyzer: placements of several distribution types in two   *)
(* zones, and the group counts read at any point                           *)
(***************************************************************************)
PatternTypeInputs == {"stack", "spread", "placed", "bogus"}

RecordPatterned ==
    \E item_id \in ItemIds, zone \in ZoneNames, distribution_type \in PatternTypeInputs :
        record_placement(item_id, zone, distribution_type, NULL, NULL, NULL, Some(1), NULL, 1)

QueryPatterns == distribution_patterns

NextPatterns ==
    \/ RecordPatterned
    \/ QueryPatterns

SpecPatterns == Init /\ [][NextPatterns]_vars

\* The sum of f[x] over the domain of a dict f.
RECURSIVE SumOfDict(_)
SumOfDict(f) ==
    IF DOMAIN f = {} THEN 0
    ELSE LET x == CHOOSE x \in DOMAIN f : TRUE
         IN  f[x] + SumOfDict([y \in DOMAIN f \ {x} |-> f[y]])

\* The sum of r.count over a set of records.
RECURSIVE SumOfCounts(_)
SumOfCounts(S) ==
    IF S = {} THEN 0
    ELSE LET r == CHOOSE r \in S : TRUE
         IN  r.count + SumOfCounts(S \ {r})

\* C12: whenever distribution_patterns is called, the counts of
\* overall_counts summed over all distribution types equal the number of
\* placement rows in the ledger, and the counts of by_zone summed over all
\* (zone, distribution type) pairs equal the same number.
C12_CountsSumToTotal ==
    ret.op = "distribution_patterns" =>
        /\ SumOfDict(ret.value.overall_counts) = Len(placements)
        /\ SumOfCounts(ret.value.by_zone) = Len(placements)

\* The counts read when one distribution type has been recorded in two
\* zones: one overall count of 2 and two by_zone counts of 1.
C12_Witness ==
    /\ ret.op = "distribution_patterns"
    /\ \E t \in DOMAIN ret.value.overall_counts : ret.value.overall_counts[t] >= 2
    /\ Cardinality(ret.value.by_zone) >= 2

(***************************************************************************)
(* The ledger under every kind of call: an identity registered again and   *)
(* again, placements with and without company, rejected writes, queries    *)
(***************************************************************************)
RegisterAgain ==
    \E label \in Labels, category \in CategoryInputs :
        register_item("a", label, category, NULL, NULL, NULL, NULL, NULL, NULL)

RecordSeen ==
    \E zone \in ZoneNames, distribution_type \in DistributionInputs,
       seen_with \in SeenWithInputs :
        record_placement("a", zone, distribution_type, NULL, NULL, seen_with, Some(1), NULL, 1)

NextLedger ==
    \/ RegisterAgain
    \/ RecordSeen
    \/ RegisterZone
    \/ QueryItemStatus
    \/ QueryPlacementHistory
    \/ QueryRecentNeighbors
    \/ QueryItemsInZone
    \/ QueryAttention
    \/ QueryPatterns

SpecLedger == Init /\ [][NextLedger]_vars

\* C13: every call keeps the placement rows and the co-presence rows that
\* were stored, unchanged and in place, at the head of their tables; a
\* successful record_placement adds exactly one placement row, and any other
\* call (register_item, also of an identity that has placements,
\* register_zone, a rejected write, a query) leaves both tables as they were.
C13_AppendOnly ==
    [][/\ Len(placements') >= Len(placements)
       /\ SubSeq(placements', 1, Len(placements)) = placements
       /\ Len(co_presence') >= Len(co_presence)
       /\ SubSeq(co_presence', 1, Len(co_presence)) = co_presence
       /\ IF ret'.op = "record_placement" /\ ret'.status = "ok"
          THEN Len(placements') = Len(placements) + 1
          ELSE placements' = placements /\ co_presence' = co_presence]_vars

\* An identity registered again, with another label, after placements and
\* co-presence rows of it were stored.
C13_Witness ==
    /\ ret.op = "register_item"
    /\ ret.status = "ok"
    /\ ret.replaced
    /\ ret.args.label = "L2"
    /\ Len(placements) >= 2
    /\ \A i \in 1..Len(placements) : placements[i].item_id = ret.args.item_id
    /\ co_presence # <<>>

====
